---- MODULE Spec2Model ----
(***************************************************************************)
(* Rotation-curve component library (binder/python/components.py):         *)
(* the hdf5 cache store (savedata / loaddata / checkfile), the component   *)
(* models that read and write it, the quadrature combiner and the          *)
(* parameter-set builder.                                                  *)
(*                                                                         *)
(* Conventions.  A Python string that the code inspects (lower(), upper(), *)
(* replace()) is a sequence of one-character strings.  A numeric array is  *)
(* a sequence of integers.  A 2 x n hdf5 dataset [x, y] is the pair        *)
(* <<x, y>>: Python's a[0] is a[1] here and a[1] is a[2].  A call is an    *)
(* operator from the file system and the arguments to a record             *)
(*   [fs, raised, ret, opens, closes]                                      *)
(* fs the file system after the call, raised the exception that left the   *)
(* call ("none" when it returned), ret the value returned, opens / closes  *)
(* the number of h5.File handles the call opened / closed explicitly.      *)
(***************************************************************************)
EXTENDS Integers, Sequences, FiniteSets, TLC

(***************************************************************************)
(* Strings                                                                 *)
(***************************************************************************)
UpperLetters == <<"A","B","C","D","E","F","G","H","I","J","K","L","M","N","O","P","Q","R","S","T","U","V","W","X","Y","Z">>
LowerLetters == <<"a","b","c","d","e","f","g","h","i","j","k","l","m","n","o","p","q","r","s","t","u","v","w","x","y","z">>

lowerChar(c) == IF \E i \in DOMAIN UpperLetters : UpperLetters[i] = c
                THEN LowerLetters[CHOOSE i \in DOMAIN UpperLetters : UpperLetters[i] = c]
                ELSE c
upperChar(c) == IF \E i \in DOMAIN LowerLetters : LowerLetters[i] = c
                THEN UpperLetters[CHOOSE i \in DOMAIN LowerLetters : LowerLetters[i] = c]
                ELSE c
\* str.lower(), str.upper(), str.replace(" ","")
lower(s) == [i \in 1..Len(s) |-> lowerChar(s[i])]
upper(s) == [i \in 1..Len(s) |-> upperChar(s[i])]
removeSpaces(s) == SelectSeq(s, LAMBDA c : c # " ")

\* the canonical group names
s_disk == <<"d", "i", "s", "k">>
s_blackhole == <<"b", "l", "a", "c", "k", "h", "o", "l", "e">>
s_halo == <<"h", "a", "l", "o">>
s_bulge == <<"b", "u", "l", "g", "e">>
s_total == <<"t", "o", "t", "a", "l">>
s_h == <<"h">>
s_all == <<"a", "l", "l">>
\* the lists of savedata's `if group.lower() in [...]`
savedata_disk ==
    {<<"d", "i", "s", "c">>, s_disk, <<"d">>}
savedata_blackhole ==
    {<<"b", "h">>, <<"b", "l", "a", "c", "k", " ", "h", "o", "l", "e">>, s_blackhole}
savedata_halo ==
    {<<"d", "m">>, <<"d", "a", "r", "k", " ", "m", "a", "t", "t", "e", "r">>, s_h, s_halo,
     <<"d", "a", "r", "k", "m", "a", "t", "t", "e", "r">>}
savedata_bulge ==
    {<<"b">>, s_bulge}
savedata_total ==
    {<<"t">>, s_total}
\* the lists of loaddata's `if group in [...]`
loaddata_disk ==
    {<<"D", "i", "s", "k">>, <<"d", "i", "s", "c">>, <<"D", "i", "s", "c">>, <<"d">>, <<"D">>}
loaddata_blackhole ==
    {<<"b", "h">>, <<"B", "h">>, <<"B", "H">>,
     <<"B", "l", "a", "c", "k", " ", "H", "o", "l", "e">>,
     <<"B", "l", "a", "c", "k", "H", "o", "l", "e">>,
     <<"B", "l", "a", "c", "k", "h", "o", "l", "e", ",">>,
     <<"B", "l", "a", "c", "k", " ", "h", "o", "l", "e">>,
     <<"b", "l", "a", "c", "k", " ", "h", "o", "l", "e">>,
     <<"B", "l", "a", "c", "k", " ", "H", "o", "l", "e">>}
loaddata_halo ==
    {<<"d", "m">>, <<"D", "M">>, <<"D", "m">>,
     <<"D", "a", "r", "k", " ", "M", "a", "t", "t", "e", "r">>,
     <<"D", "a", "r", "k", " ", "m", "a", "t", "t", "e", "r">>,
     <<"d", "a", "r", "k", " ", "m", "a", "t", "t", "e", "r">>, s_h, <<"H">>,
     <<"H", "a", "l", "o">>, <<"d", "a", "r", "k", "m", "a", "t", "t", "e", "r">>,
     <<"D", "a", "r", "k", "m", "a", "t", "t", "e", "r">>}
loaddata_bulge ==
    {<<"b">>, <<"B">>, <<"B", "u", "l", "g", "e">>}
loaddata_total ==
    {<<"t">>, <<"T">>, <<"T", "o", "t", "a", "l">>}

(***************************************************************************)
(* Arrays and maps                                                         *)
(***************************************************************************)
Min(a, b) == IF a <= b THEN a ELSE b
\* sequence s without its element at (1-based) position p: np.delete(s, p-1)
np_delete(s, p) == [j \in 1..(Len(s) - 1) |-> IF j < p THEN s[j] ELSE s[j + 1]]
\* lexicographic order on pairs, as Python compares the tuples of zip(x, y)
PairLeq(p, q) == \/ p[1] < q[1]
                 \/ p[1] = q[1] /\ p[2] <= q[2]
RECURSIVE InsertSorted(_, _)
InsertSorted(p, s) == IF s = <<>> THEN <<p>>
                      ELSE IF PairLeq(p, Head(s)) THEN <<p>> \o s
                      ELSE <<Head(s)>> \o InsertSorted(p, Tail(s))
RECURSIVE sorted(_)
sorted(s) == IF s = <<>> THEN <<>> ELSE InsertSorted(Head(s), sorted(Tail(s)))
zip(x, y) == [j \in 1..Min(Len(x), Len(y)) |-> <<x[j], y[j]>>]
StrictlyIncreasing(x) == \A j \in 1..(Len(x) - 1) : x[j] < x[j + 1]

NoEntries == [z \in {} |-> <<>>]
MapPut(m, k, v) == [z \in (DOMAIN m) \cup {k} |-> IF z = k THEN v ELSE m[z]]
MapDel(m, k) == [z \in (DOMAIN m) \ {k} |-> m[z]]

\* return values
NoneVal == [kind |-> "None", val |-> 0]
IntVal(n) == [kind |-> "int", val |-> n]
ArrVal(a) == [kind |-> "array", val |-> a]

(***************************************************************************)
(* State                                                                   *)
(***************************************************************************)
VARIABLES
    h5py,     \* the module global h5py: 1 when `import h5py` succeeded, else 0
    errs,     \* which exceptions the installed h5py / numpy raise (see below)
    files,    \* the hdf5 files under defaultpath: name -> [exists, groups]
    last      \* the last call made: its name, arguments, outcome, and the
              \* file system it started from
vars == <<h5py, errs, files, last>>

\* file names: savedata / loaddata's default, and comp + '.hdf5' per component
DefaultFile == "Inputs.hdf5"
FileNames == {"Inputs.hdf5", "blackhole.hdf5", "bulge.hdf5", "halo.hdf5"}
NoFile == [exists |-> FALSE, groups |-> NoEntries]

(***************************************************************************)
(* h5py.  Which exception h5py raises depends on the installed versions,   *)
(* so it is a choice made once, in Init:                                   *)
(*   errs.dup     create_dataset on a name that exists: RuntimeError       *)
(*                (h5py 2: "Unable to create link") or ValueError (h5py 3) *)
(*   errs.ragged  data=[x, y] with len(x) # len(y): ValueError (numpy      *)
(*                refuses the ragged list) or TypeError (object dtype)     *)
(* create_group on a name that exists raises ValueError and a missing key  *)
(* raises KeyError.  Opening a missing file 'r' raises a plain OSError     *)
(* with h5py 2, the h5py of errs.dup = "RuntimeError", and                 *)
(* FileNotFoundError with h5py 3.                                          *)
(***************************************************************************)
DupErrors == {"RuntimeError", "ValueError"}
RaggedErrors == {"ValueError", "TypeError"}
\* h5.File(path, 'r') on a file that does not exist
open_missing == IF errs.dup = "RuntimeError" THEN "OSError" ELSE "FileNotFoundError"

\* grp.create_dataset(dataset, data=[xvalues, yvalues]) on the datasets of grp
create_dataset(dsets, dataset, xvalues, yvalues) ==
    IF Len(xvalues) # Len(yvalues) THEN [dsets |-> dsets, raised |-> errs.ragged]
    ELSE IF dataset \in DOMAIN dsets THEN [dsets |-> dsets, raised |-> errs.dup]
    ELSE [dsets |-> MapPut(dsets, dataset, <<xvalues, yvalues>>), raised |-> "none"]

\* one `if group.lower() in [...]: group = ...` of savedata
lowerAlias(group, names, canonical) == IF lower(group) \in names THEN canonical ELSE group
\* the chain of them, in the order of the code
savedata_group(group) ==
    lowerAlias(lowerAlias(lowerAlias(lowerAlias(lowerAlias(group,
        savedata_disk, s_disk),
        savedata_blackhole, s_blackhole),
        savedata_halo, s_halo),
        savedata_bulge, s_bulge),
        savedata_total, s_total)

\* one `if group in [...]: group = ...` of loaddata
exactAlias(group, names, canonical) == IF group \in names THEN canonical ELSE group
\* the chain of them, in the order of the code
loaddata_group(group) ==
    exactAlias(exactAlias(exactAlias(exactAlias(exactAlias(group,
        loaddata_disk, s_disk),
        loaddata_blackhole, s_blackhole),
        loaddata_halo, s_halo),
        loaddata_bulge, s_bulge),
        loaddata_total, s_total)

\* the outcome of a call
Outcome(fs, raised, ret, opens, closes) ==
    [fs |-> fs, raised |-> raised, ret |-> ret, opens |-> opens, closes |-> closes]

(***************************************************************************)
(* loaddata(group, dataset, path, file)                                    *)
(***************************************************************************)
\* grp = saved[group]; dset = grp[dataset]; a = dset[:]; return a
\* (the saved.close() after the return is never reached)
loaddata_read(fs, groups, group, dataset) ==
    IF group \notin DOMAIN groups THEN Outcome(fs, "KeyError", NoneVal, 1, 0)
    ELSE IF dataset \notin DOMAIN groups[group] THEN Outcome(fs, "KeyError", NoneVal, 1, 0)
    ELSE Outcome(fs, "none", ArrVal(groups[group][dataset]), 1, 0)

loaddata(fs, group, dataset, file) ==
    IF h5py = 1 THEN
        IF ~fs[file].exists                       \* h5.File(path+'/'+file,'r')
        THEN Outcome(fs, open_missing, NoneVal, 0, 0)
        ELSE loaddata_read(fs, fs[file].groups, loaddata_group(group), dataset)
    ELSE Outcome(fs, "none", IntVal(1), 0, 0)

(***************************************************************************)
(* savedata(xvalues, yvalues, group, dataset, path, file)                  *)
(***************************************************************************)
\* the while loop of the merge: drop the later of two neighbours with equal x
RECURSIVE dropRepeated(_, _, _)
dropRepeated(x, y, i) ==
    IF i < Len(x)
    THEN IF x[i + 1] = x[i]
         THEN dropRepeated(np_delete(x, i + 1), np_delete(y, i + 1), i)
         ELSE dropRepeated(x, y, i + 1)
    ELSE <<x, y>>

\* what a block of savedata leaves: the groups of the file, the exception raised
\* in it, and whether the local grp is bound
Block(groups, raised, grpBound) ==
    [groups |-> groups, raised |-> raised, grpBound |-> grpBound]
created(groups, group, cd) == Block(MapPut(groups, group, cd.dsets), cd.raised, TRUE)

\* the try body: grp = saved.create_group(group); grp.create_dataset(...)
savedata_try(groups, group, dataset, xvalues, yvalues) ==
    IF group \in DOMAIN groups
    THEN Block(groups, "ValueError", FALSE)
    ELSE created(groups, group, create_dataset(NoEntries, dataset, xvalues, yvalues))

\* the except ValueError clause as it would be if it deleted the dataset before
\* creating it
savedata_exceptValueError_deleting(groups, group, dataset, xvalues, yvalues) ==
    IF group \notin DOMAIN groups
    THEN Block(groups, "KeyError", FALSE)
    ELSE created(groups, group,
                 create_dataset(MapDel(groups[group], dataset), dataset, xvalues, yvalues))

\* except ValueError: grp = saved[group]; grp.create_dataset(...)
\* (what this clause raises leaves the try statement: the except RuntimeError
\*  clause beside it guards the try body only)
savedata_exceptValueError(groups, group, dataset, xvalues, yvalues) ==
    IF group \notin DOMAIN groups
    THEN Block(groups, "KeyError", FALSE)
    ELSE created(groups, group, create_dataset(groups[group], dataset, xvalues, yvalues))

\* saved = h5.File(path+'/'+file,'a') creates the file; finally: saved.close()
closed(fs, file, block) ==
    Outcome([fs EXCEPT ![file] = [exists |-> TRUE, groups |-> block.groups]],
            block.raised, NoneVal, 1, 1)
\* the same around the outcome m of the except RuntimeError clause
closedAfter(m) == Outcome(m.fs, m.raised, m.ret, 1 + m.opens, 1 + m.closes)

\* the except ValueError clause and the finally clause of savedata's try
\* statement, given what its body left
savedata_clauses(fs, body, xvalues, yvalues, group, dataset, file) ==
    IF body.raised = "ValueError"
    THEN closed(fs, file, savedata_exceptValueError(body.groups, group, dataset, xvalues, yvalues))
    \* no exception, or one that no clause names
    ELSE closed(fs, file, body)

\* The call savedata makes to itself at the end of the merge.  It finds the group
\* the outer call found or created, so its try body raises ValueError at
\* create_group and its own except RuntimeError clause is not entered.
savedata_again(fs, xvalues, yvalues, group, dataset, file) ==
    savedata_clauses(fs, savedata_try(fs[file].groups, savedata_group(group), dataset,
                                      xvalues, yvalues),
                     xvalues, yvalues, savedata_group(group), dataset, file)

\* del grp[dataset]; savedata(x, y, group, dataset, path, file); return y
returnY(again, y) ==
    Outcome(again.fs, again.raised, IF again.raised = "none" THEN ArrVal(y) ELSE NoneVal,
            2 + again.opens, again.closes)
merge_rewrite(fs, grpBound, group, dataset, file, xy) ==
    IF ~grpBound                                  \* grp was never bound
    THEN Outcome(fs, "UnboundLocalError", NoneVal, 2, 0)
    ELSE IF dataset \notin DOMAIN fs[file].groups[group]
    THEN Outcome(fs, "KeyError", NoneVal, 2, 0)
    ELSE returnY(savedata_again([fs EXCEPT ![file].groups[group] = MapDel(@, dataset)],
                                xy[1], xy[2], group, dataset, file), xy[2])

\* x, y = (list(a) for a in zip(*sorted(zip(x, y)))); the while loop
merge_sorted(fs, grpBound, group, dataset, file, s) ==
    IF s = <<>>                                   \* nothing to unpack
    THEN Outcome(fs, "ValueError", NoneVal, 2, 0)
    ELSE merge_rewrite(fs, grpBound, group, dataset, file,
             dropRepeated([j \in 1..Len(s) |-> s[j][1]], [j \in 1..Len(s) |-> s[j][2]], 1))

\* x = np.append(loaddata(...)[0], xvalues); y = np.append(loaddata(...)[1], yvalues)
merge_loaded(fs, grpBound, group, dataset, file, xvalues, yvalues, l) ==
    IF l.raised # "none"
    THEN Outcome(fs, l.raised, NoneVal, l.opens, 0)
    ELSE merge_sorted(fs, grpBound, group, dataset, file,
                      sorted(zip(l.ret.val[1] \o xvalues, l.ret.val[2] \o yvalues)))

\* except RuntimeError: load, append, sort, drop repeated x, delete, save again
savedata_exceptRuntimeError(fs, grpBound, group, dataset, file, xvalues, yvalues) ==
    merge_loaded(fs, grpBound, group, dataset, file, xvalues, yvalues,
                 loaddata(fs, group, dataset, file))

\* the try statement of savedata, given what its body left
savedata_handlers(fs, body, xvalues, yvalues, group, dataset, file) ==
    IF body.raised = "RuntimeError"
    THEN closedAfter(savedata_exceptRuntimeError(
                         [fs EXCEPT ![file] = [exists |-> TRUE, groups |-> body.groups]],
                         body.grpBound, group, dataset, file, xvalues, yvalues))
    ELSE savedata_clauses(fs, body, xvalues, yvalues, group, dataset, file)

\* the branch `if h5py == 1`, group being the name after the alias mapping
savedata_h5(fs, xvalues, yvalues, group, dataset, file) ==
    savedata_handlers(fs, savedata_try(fs[file].groups, group, dataset, xvalues, yvalues),
                      xvalues, yvalues, group, dataset, file)

\* savedata as it would be without its test of the h5py flag
savedata_untested(fs, xvalues, yvalues, group, dataset, file) ==
    savedata_h5(fs, xvalues, yvalues, savedata_group(group), dataset, file)

savedata(fs, xvalues, yvalues, group, dataset, file) ==
    IF h5py = 1
    THEN savedata_h5(fs, xvalues, yvalues, savedata_group(group), dataset, file)
    ELSE Outcome(fs, "none", IntVal(1), 0, 0)

(***************************************************************************)
(* checkfile(group, path, file)                                            *)
(***************************************************************************)
checkfile(fs, group, file) ==
    IF h5py = 1 THEN
        IF ~fs[file].exists                       \* h5.File(path+'/'+file,'r')
        THEN Outcome(fs, open_missing, NoneVal, 0, 0)
        ELSE IF group # s_all /\ group \notin DOMAIN fs[file].groups   \* grp = saved[group]
        THEN Outcome(fs, "KeyError", NoneVal, 1, 0)
        ELSE Outcome(fs, "none", NoneVal, 1, 1)   \* saved.close()
    ELSE Outcome(fs, "none", IntVal(1), 0, 0)

(***************************************************************************)
(* Numbers.  Floating-point values are integers here: a quotient is the    *)
(* integer quotient and a square root the integer square root.             *)
(***************************************************************************)
G == 4                         \* gravitational constant, in the model's units
SplineOrder == 5               \* k=5 of every InterpolatedUnivariateSpline
Isqrt(n) == CHOOSE k \in 0..n : k * k <= n /\ n < (k + 1) * (k + 1)
\* np.sqrt followed by the code's NaN cleaning (x[np.isnan(x)] = 0): the square
\* root of a negative number is NaN, which the cleaning replaces by 0
np_sqrt_clean(n) == IF n < 0 THEN 0 ELSE Isqrt(n)
Ramp(n) == [j \in 1..n |-> j]
np_sort(r) == [j \in 1..Len(r) |-> sorted(zip(r, r))[j][1]]
scaled(pref, v) == [j \in 1..Len(v) |-> pref * v[j]]
squared(v) == [j \in 1..Len(v) |-> v[j] * v[j]]
zeros_like(r) == [j \in 1..Len(r) |-> 0]

(***************************************************************************)
(* InterpolatedUnivariateSpline(x, y, k=5), and its evaluation at r.       *)
(* The constructor refuses x and y of different lengths, fewer than k + 1  *)
(* points, and x that is not strictly increasing.  The spline passes       *)
(* through its points; between two of them the value is interpolated       *)
(* linearly here, and outside them it is that of the nearest point.        *)
(***************************************************************************)
spline_ok(x, y) ==
    /\ Len(x) = Len(y)
    /\ Len(x) > SplineOrder
    /\ StrictlyIncreasing(x)
spline_lower(x, ri) == CHOOSE j \in 1..(Len(x) - 1) : x[j] <= ri /\ ri <= x[j + 1]
spline_between(x, y, ri, j) == y[j] + ((y[j + 1] - y[j]) * (ri - x[j])) \div (x[j + 1] - x[j])
spline_at(x, y, ri) ==
    IF ri <= x[1] THEN y[1]
    ELSE IF ri >= x[Len(x)] THEN y[Len(x)]
    ELSE spline_between(x, y, ri, spline_lower(x, ri))
spline_eval(x, y, r) == [j \in 1..Len(r) |-> spline_at(x, y, r[j])]
\* polynomial = InterpolatedUnivariateSpline(x, y, k=5); return polynomial(r)
return_spline(fs, x, y, r, opens, closes) ==
    IF spline_ok(x, y)
    THEN Outcome(fs, "none", ArrVal(spline_eval(x, y, r)), opens, closes)
    ELSE Outcome(fs, "ValueError", NoneVal, opens, closes)

(***************************************************************************)
(* The galaxy catalog (load_galaxies.py): the records galdict looks up.    *)
(***************************************************************************)
s_NGC5533 == <<"N", "G", "C", "5", "5", "3", "3">>
s_NGC7814 == <<"N", "G", "C", "7", "8", "1", "4">>
s_NGC5005 == <<"N", "G", "C", "5", "0", "0", "5">>
s_ngc5533 == <<"n", "g", "c", "5", "5", "3", "3">>
s_NGC_5533 == <<"N", "G", "C", " ", "5", "5", "3", "3">>
s_M31 == <<"M", "3", "1">>

CatLen == 6                    \* number of measured radii of a galaxy
CatalogNames == {s_NGC5533, s_NGC7814, s_NGC5005}
\* the record of a galaxy: measured radii, velocities and their errors, the width
\* of the velocity band (a key some records lack), bulge luminosity and trace,
\* disk and gas traces with their own radii, halo defaults, central black hole
\* mass
Catalog(name) ==
    [m_radii |-> Ramp(CatLen),
     m_velocities |-> [j \in 1..CatLen |-> 20 + j],
     m_v_errors |-> [j \in 1..CatLen |-> 3],
     hasBand |-> name # s_NGC7814,
     n_v_bandwidth |-> [j \in 1..CatLen |-> 4],
     bulge |-> [Lb |-> 60, v |-> [j \in 1..CatLen |-> 20 - j]],
     disk |-> [r |-> Ramp(CatLen), v |-> [j \in 1..CatLen |-> 10 + j]],
     gas |-> [r |-> Ramp(CatLen), v |-> [j \in 1..CatLen |-> 2 + j]],
     rc |-> IF name = s_NGC5533 THEN 1 ELSE 2,
     rho0 |-> IF name = s_NGC5533 THEN 3 ELSE 5,
     hasBlackhole |-> name # s_NGC5005,
     Mbh |-> IF name = s_NGC5533 THEN 100 ELSE 0]

\* galdict(galaxy): globals()[galaxy.upper().replace(" ","")]
galdict_name(galaxy) == removeSpaces(upper(galaxy))
galdict_known(galaxy) == galdict_name(galaxy) \in CatalogNames
galdict(galaxy) == Catalog(galdict_name(galaxy))

(***************************************************************************)
(* blackhole(r, M, load, save)                                             *)
(***************************************************************************)
\* a = np.sqrt(G*M/r)
blackhole_a(r, M) == [j \in 1..Len(r) |-> Isqrt((G * M) \div r[j])]
blackhole_key(M) == <<"Mbh", M>>

\* `return a` after a savedata call with outcome o, the calls before it having
\* opened `opens` handles
return_after_save(o, a, opens) ==
    Outcome(o.fs, o.raised, IF o.raised = "none" THEN ArrVal(a) ELSE NoneVal,
            opens + o.opens, o.closes)

\* if save: savedata(r, a, comp, 'Mbh'+str(M), file=comp+'.hdf5'); return a
blackhole_save(fs, r, M, opens) ==
    return_after_save(savedata(fs, r, blackhole_a(r, M), s_blackhole, blackhole_key(M),
                               "blackhole.hdf5"),
                      blackhole_a(r, M), opens)

\* the try statement of `if load:`, l being the outcome of the first loaddata call
\* (the second, identical one is made when the first returned an array)
blackhole_load(fs, r, M, l) ==
    IF l.raised = "none"
    THEN IF l.ret.kind = "array"
         THEN Outcome(fs, "none", ArrVal(blackhole_a(r, M)), 2 * l.opens, 0)
         ELSE Outcome(fs, "TypeError", NoneVal, l.opens, 0)      \* 1[1]
    ELSE IF l.raised \in {"KeyError", "FileNotFoundError"}       \* save = True
    THEN blackhole_save(fs, r, M, l.opens)
    ELSE Outcome(fs, l.raised, NoneVal, l.opens, 0)

\* blackhole as it would be if it loaded whatever the flag load says
blackhole_loading(fs, r, M, load, save) ==
    IF save THEN blackhole_save(fs, r, M, 0)
    ELSE blackhole_load(fs, r, M, loaddata(fs, s_blackhole, blackhole_key(M), "blackhole.hdf5"))

blackhole(fs, r, M, load, save) ==
    IF save THEN blackhole_save(fs, r, M, 0)                     \* load = False
    ELSE IF load
    THEN blackhole_load(fs, r, M, loaddata(fs, s_blackhole, blackhole_key(M), "blackhole.hdf5"))
    ELSE Outcome(fs, "none", ArrVal(blackhole_a(r, M)), 0, 0)

(***************************************************************************)
(* h_viso(r, rc, rho00, load, save, comp='halo') and halo(r, rc, rho00)    *)
(***************************************************************************)
\* 1 - (rc/r)*arctan(r/rc), which grows from 0 at r = 0 towards 1, times 4*pi*G*
\* rho00*rc**2: here 12*G*rho00*rc**2 * r**2 / (r**2 + 3*rc**2)
h_viso_radicand(r, rc, rho00) == (12 * G * rho00 * rc * rc * r * r) \div (r * r + 3 * rc * rc)
\* the value that stands for NaN among the velocities, which are not negative
NaN == -1
\* np.sqrt: the square root of a negative number is NaN
np_sqrt(n) == IF n < 0 THEN NaN ELSE Isqrt(n)
\* np.sqrt(4*np.pi*G*rho00*(rc**2)*(1-((rc/r)*np.arctan(r/rc)))) at one radius; at
\* radius 0, rc/r is infinite and its product with arctan(0) = 0 is NaN
h_viso_root(rj, rc, rho00) ==
    IF rj = 0 THEN NaN ELSE np_sqrt(h_viso_radicand(rj, rc, rho00))
\* the same at r_safe, which has eps in the place of 0; there the radicand is 0 to
\* the model's precision
h_viso_safe(rj, rc, rho00) ==
    IF rj = 0 THEN np_sqrt(0) ELSE h_viso_root(rj, rc, rho00)
\* the calculation as it would be without r_safe, np.where and the NaN cleaning
h_viso_a_unguarded(r, rc, rho00) == [j \in 1..Len(r) |-> h_viso_root(r[j], rc, rho00)]
\* a = np.sqrt(...) at r_safe, a = np.where(r == 0, 0, a), a[np.isnan(a)] = 0
h_viso_a(r, rc, rho00) ==
    [j \in 1..Len(r) |->
        IF r[j] = 0 THEN 0
        ELSE IF h_viso_safe(r[j], rc, rho00) = NaN THEN 0
        ELSE h_viso_safe(r[j], rc, rho00)]
h_viso_key(rc, rho00) == <<"rc", rc, "rho00", rho00>>
\* the name traceback is used by the bare except clause but is bound by no import
TracebackImported == FALSE

\* if save: savedata(r, a, comp, 'rc'+str(rc)+'rho00'+str(rho00), file=comp+'.hdf5')
\* return a
h_viso_save(fs, r, rc, rho00, save, opens) ==
    IF save
    THEN return_after_save(savedata(fs, r, h_viso_a(r, rc, rho00), s_halo,
                                    h_viso_key(rc, rho00), "halo.hdf5"),
                           h_viso_a(r, rc, rho00), opens)
    ELSE Outcome(fs, "none", ArrVal(h_viso_a(r, rc, rho00)), opens, 0)

\* the bare `except:` clause: it prints, and then sets save = True
h_viso_except(fs, r, rc, rho00, opens) ==
    IF TracebackImported
    THEN h_viso_save(fs, r, rc, rho00, TRUE, opens)
    ELSE Outcome(fs, "NameError", NoneVal, opens, 0)   \* print(traceback.format_exc())

\* b = InterpolatedUnivariateSpline(x, y, k=5); return b(r)
h_viso_spline(fs, r, rc, rho00, x, y, opens) ==
    IF spline_ok(x, y)
    THEN Outcome(fs, "none", ArrVal(spline_eval(x, y, r)), opens, 0)
    ELSE h_viso_except(fs, r, rc, rho00, opens)

\* the try statement of `if load:`, l being the outcome of the first loaddata call
h_viso_load(fs, r, rc, rho00, l) ==
    IF l.raised = "none"
    THEN IF l.ret.kind = "array"
         THEN h_viso_spline(fs, r, rc, rho00, l.ret.val[1], l.ret.val[2], 2 * l.opens)
         ELSE h_viso_except(fs, r, rc, rho00, l.opens)           \* 1[1]: TypeError
    ELSE IF l.raised \in {"KeyError", "FileNotFoundError"}       \* save = True
    THEN h_viso_save(fs, r, rc, rho00, TRUE, l.opens)
    ELSE h_viso_except(fs, r, rc, rho00, l.opens)

h_viso(fs, r, rc, rho00, load, save) ==
    IF load
    THEN h_viso_load(fs, r, rc, rho00, loaddata(fs, s_halo, h_viso_key(rc, rho00), "halo.hdf5"))
    ELSE h_viso_save(fs, r, rc, rho00, save, 0)

\* halo as it would be if it left h_viso's load at its default, True
halo_loading(fs, r, rc, rho00) == h_viso(fs, r, rc, rho00, TRUE, FALSE)

\* halo(r, rc, rho00): h_viso(r, rc, rho00, load=False)
halo(fs, r, rc, rho00) == h_viso(fs, r, rc, rho00, FALSE, FALSE)

(***************************************************************************)
(* bulge(r, bpref, galaxy, n, re, load, save, comp='bulge')                *)
(***************************************************************************)
n_c == 3                       \* default concentration parameter
re_c == 3                      \* default effective radius
\* the integral behind b_vsquare, which grows with the radius m
bulge_vsquare(m, L, n, re) == (L * L * m) \div (m + n * re)
bulge_key(L, n, re) == <<"L", L, "n", n, "re", re>>
\* y as it would be if one failing integration made the whole array 0.0
bulge_y_together(r_dat, L, n, re, fails) ==
    [j \in 1..Len(r_dat) |->
        IF fails # {} THEN 0 ELSE np_sqrt_clean(bulge_vsquare(r_dat[j], L, n, re))]

\* y = b_vquarev_parallel(r_dat, L, n, re)**(1/2); y[np.isnan(y)] = 0, where
\* _bulge_integration_parallel yields 0.0 at each radius whose integration fails
\* (fails: the positions in r_dat at which it does)
bulge_y(r_dat, L, n, re, fails) ==
    [j \in 1..Len(r_dat) |->
        IF j \in fails THEN 0 ELSE np_sqrt_clean(bulge_vsquare(r_dat[j], L, n, re))]

\* the final spline, after a savedata call with outcome o
bulge_after_save(o, r_dat, y, r, bpref, opens) ==
    IF o.raised = "none"
    THEN return_spline(o.fs, r_dat, scaled(bpref, y), r, opens + o.opens, o.closes)
    ELSE Outcome(o.fs, o.raised, NoneVal, opens + o.opens, o.closes)

\* the computation as it would be if it saved the trace times the prefactor
bulge_compute_scaled(fs, r, bpref, gd, n, re, save, fails, opens) ==
    IF save
    THEN bulge_after_save(savedata(fs, r,
                                   scaled(bpref, bulge_y(gd.m_radii, gd.bulge.Lb, n, re, fails)),
                                   s_bulge, bulge_key(gd.bulge.Lb, n, re), "bulge.hdf5"),
                          gd.m_radii, bulge_y(gd.m_radii, gd.bulge.Lb, n, re, fails),
                          r, bpref, opens)
    ELSE return_spline(fs, gd.m_radii,
                       scaled(bpref, bulge_y(gd.m_radii, gd.bulge.Lb, n, re, fails)),
                       r, opens, 0)

\* the computation, `if save: savedata(r, y, comp, key, file=comp+'.hdf5')`, and
\* the final spline
bulge_compute(fs, r, bpref, gd, n, re, save, fails, opens) ==
    IF save
    THEN bulge_after_save(savedata(fs, r, bulge_y(gd.m_radii, gd.bulge.Lb, n, re, fails),
                                   s_bulge, bulge_key(gd.bulge.Lb, n, re), "bulge.hdf5"),
                          gd.m_radii, bulge_y(gd.m_radii, gd.bulge.Lb, n, re, fails),
                          r, bpref, opens)
    ELSE return_spline(fs, gd.m_radii,
                       scaled(bpref, bulge_y(gd.m_radii, gd.bulge.Lb, n, re, fails)),
                       r, opens, 0)

\* the try statement of `if load:`, l being the outcome of the loaddata call; only
\* KeyError is caught
bulge_load(fs, r, bpref, gd, n, re, fails, l) ==
    IF l.raised = "none"
    THEN IF l.ret.kind = "array"
         THEN return_spline(fs, gd.m_radii, scaled(bpref, l.ret.val[2]), r, l.opens, 0)
         ELSE Outcome(fs, "TypeError", NoneVal, l.opens, 0)      \* 1[1]
    ELSE IF l.raised = "KeyError"                                \* save = True
    THEN bulge_compute(fs, r, bpref, gd, n, re, TRUE, fails, l.opens)
    ELSE Outcome(fs, l.raised, NoneVal, l.opens, 0)

bulge_branches(fs, r, bpref, galaxy, gd, n, re, load, save, fails) ==
    IF upper(galaxy) = s_NGC7814
    THEN return_spline(fs, gd.m_radii, scaled(bpref, gd.bulge.v), r, 0, 0)
    ELSE IF upper(galaxy) = s_NGC5533
    THEN IF load
         THEN bulge_load(fs, r, bpref, gd, n, re, fails,
                         loaddata(fs, s_bulge, bulge_key(gd.bulge.Lb, n, re), "bulge.hdf5"))
         ELSE bulge_compute(fs, r, bpref, gd, n, re, save, fails, 0)
    ELSE Outcome(fs, "UnboundLocalError", NoneVal, 0, 0)         \* y is not bound

bulge(fs, r, bpref, galaxy, n, re, load, save, fails) ==
    IF galdict_known(galaxy)
    THEN bulge_branches(fs, r, bpref, galaxy, galdict(galaxy), n, re, load, save, fails)
    ELSE Outcome(fs, "KeyError", NoneVal, 0, 0)

(***************************************************************************)
(* disk(r, dpref, galaxy) and gas(r, gpref, galaxy)                        *)
(***************************************************************************)
\* the branches on galaxy.upper() of disk and gas, trace being the catalog's
\* 'disk' or 'gas' record
traced(fs, r, pref, galaxy, m_radii, trace) ==
    IF upper(galaxy) = s_NGC7814
    THEN return_spline(fs, m_radii, scaled(pref, trace.v), r, 0, 0)
    ELSE IF upper(galaxy) = s_NGC5533
    THEN return_spline(fs, trace.r, scaled(pref, trace.v), r, 0, 0)
    ELSE Outcome(fs, "UnboundLocalError", NoneVal, 0, 0)         \* polynomial is not bound

disk(fs, r, dpref, galaxy) ==
    IF galdict_known(galaxy)
    THEN traced(fs, r, dpref, galaxy, galdict(galaxy).m_radii, galdict(galaxy).disk)
    ELSE Outcome(fs, "KeyError", NoneVal, 0, 0)

gas(fs, r, gpref, galaxy) ==
    IF galdict_known(galaxy)
    THEN traced(fs, r, gpref, galaxy, galdict(galaxy).m_radii, galdict(galaxy).gas)
    ELSE Outcome(fs, "KeyError", NoneVal, 0, 0)

(***************************************************************************)
(* halo_BH(r, scale, arraysize, massMiniBH, rcut)                          *)
(***************************************************************************)
\* y = np.sqrt((G * (scale * arraysize) * mass_r(r)) / r), mass_r(r)/r being
\* 4*pi*massMiniBH*rcut**2 * (1 - (rcut/r)*arctan(r/rcut))
halo_BH_y(r, scale, arraysize, massMiniBH, rcut) ==
    [j \in 1..Len(r) |->
        Isqrt(scale * arraysize * h_viso_radicand(r[j], rcut, massMiniBH))]
\* x = np.sort(r); halo = InterpolatedUnivariateSpline(x, y, k=5); return halo(r)
halo_BH(fs, r, scale, arraysize, massMiniBH, rcut) ==
    return_spline(fs, np_sort(r), halo_BH_y(r, scale, arraysize, massMiniBH, rcut), r, 0, 0)

(***************************************************************************)
(* _compute_component_parallel and the two total velocities                *)
(***************************************************************************)
\* the helper as it would be if it returned the component's result unsquared
compute_component_unsquared(o, r) ==
    IF o.raised = "none" THEN o.ret.val ELSE zeros_like(r)

\* try: return component_func(r, ...)**2; except Exception: return np.zeros_like(r)
\* (o: the outcome of the component's call)
compute_component_parallel(o, r) ==
    IF o.raised = "none" THEN squared(o.ret.val) ELSE zeros_like(r)

\* np.sqrt(sum(components_squared))
quadrature(sq, r) ==
    [j \in 1..Len(r) |-> Isqrt(sq[1][j] + sq[2][j] + sq[3][j] + sq[4][j] + sq[5][j])]

\* the five components, in the order of the list handed to Parallel; only bulge
\* touches the cache files
totalvelocity(bh, bu, di, ha, ga, r) ==
    Outcome(bu.fs, "none",
            ArrVal(quadrature(<<compute_component_parallel(bh, r),
                                compute_component_parallel(bu, r),
                                compute_component_parallel(di, r),
                                compute_component_parallel(ha, r),
                                compute_component_parallel(ga, r)>>, r)),
            bu.opens, bu.closes)

totalvelocity_miniBH(fs, r, scale, arraysize, massMiniBH, rcut, bpref, dpref, gpref, Mbh, galaxy, fails) ==
    totalvelocity(blackhole(fs, r, Mbh, FALSE, FALSE),
                  bulge(fs, r, bpref, galaxy, n_c, re_c, TRUE, FALSE, fails),
                  disk(fs, r, dpref, galaxy),
                  halo_BH(fs, r, scale, arraysize, massMiniBH, rcut),
                  gas(fs, r, gpref, galaxy), r)

totalvelocity_halo(fs, r, scale, arraysize, rho00, rcut, bpref, dpref, gpref, Mbh, galaxy, fails) ==
    totalvelocity(blackhole(fs, r, Mbh, FALSE, FALSE),
                  bulge(fs, r, bpref, galaxy, n_c, re_c, TRUE, FALSE, fails),
                  disk(fs, r, dpref, galaxy),
                  halo(fs, r, rcut, rho00),
                  gas(fs, r, gpref, galaxy), r)

(***************************************************************************)
(* set_params(model, galaxy)                                               *)
(***************************************************************************)
\* Python values a caller may pass as the model.  Strings are equal when their
\* text is; functions and lm.Model objects are equal only to themselves (id).
Function(f) == [type |-> "function", name |-> f, id |-> f]
lm_Model(f, id) == [type |-> "Model", name |-> f, id |-> id]
Str(s) == [type |-> "str", name |-> s, id |-> s]
NoneModel == [type |-> "NoneType", name |-> "None", id |-> "None"]
py_eq(a, b) == a.type = b.type /\ a.id = b.id

\* the argument names of the functions a model is made of
ArgNames(f) ==
    CASE f = "totalvelocity_miniBH" ->
            <<"r", "scale", "arraysize", "massMiniBH", "rcut", "bpref", "dpref", "gpref",
              "Mbh", "galaxy">>
      [] f = "totalvelocity_halo" ->
            <<"r", "scale", "arraysize", "rho00", "rcut", "bpref", "dpref", "gpref",
              "Mbh", "galaxy">>
      [] f = "newmodel" ->
            <<"r", "scale", "arraysize", "rho0", "rcut", "bpref", "dpref", "gpref", "Mbh">>
      [] OTHER -> <<"r">>                            \* lambda r: ...

\* a number of a parameter: a literal of the code, or a value of the catalog
Lit(text) == [src |-> "literal", text |-> text, num |-> 0]
Cat(field, n) == [src |-> "catalog", text |-> field, num |-> n]
NegInf == Lit("-inf")
PosInf == Lit("inf")
Parameter(value, vary, min, max) == [value |-> value, vary |-> vary, min |-> min, max |-> max]
\* model.make_params(): one unset parameter per argument after the first
make_params(f) ==
    [p \in {ArgNames(f)[j] : j \in 2..Len(ArgNames(f))} |-> Parameter(NegInf, TRUE, NegInf, PosInf)]
\* fit_pars.add(name, ...)
add(pars, name, par) == MapPut(pars, name, par)

\* the two halo branches; model is by now an lm.Model object
set_params_halo(pars, model, gd) ==
    IF \/ py_eq(model, Str("bh"))
       \/ py_eq(model, lm_Model("totalvelocity_miniBH", "line 1065"))
       \/ py_eq(model, Function("totalvelocity_miniBH"))
    THEN add(add(pars, "arraysize", Parameter(Lit("50"), TRUE, Lit("1"), Lit("100"))),
             "rho0", Parameter(Lit("1.5"), TRUE, Lit("0"), PosInf))
    ELSE IF \/ py_eq(model, Str("wimp"))
            \/ py_eq(model, lm_Model("totalvelocity_halo", "line 1070"))
            \/ py_eq(model, Function("totalvelocity_halo"))
    THEN add(add(pars, "arraysize", Parameter(Lit("0"), FALSE, NegInf, PosInf)),
             "rho0", Parameter(Cat("rho0", gd.rho0), TRUE, Lit("0"), PosInf))
    ELSE pars

\* the central black hole as it would be set without the test `!= 0`
set_params_Mbh_untested(pars, gd) ==
    IF gd.hasBlackhole
    THEN add(pars, "Mbh", Parameter(Cat("Mbh", gd.Mbh), TRUE, Lit("1e8"), PosInf))
    ELSE add(pars, "Mbh", Parameter(Lit("0"), FALSE, NegInf, PosInf))

\* the central black hole: the try statement and its except KeyError clause
set_params_Mbh(pars, gd) ==
    IF gd.hasBlackhole /\ gd.Mbh # 0
    THEN add(pars, "Mbh", Parameter(Cat("Mbh", gd.Mbh), TRUE, Lit("1e8"), PosInf))
    ELSE add(pars, "Mbh", Parameter(Lit("0"), FALSE, NegInf, PosInf))

\* the fit_pars.add calls as they would be with `vary=False` left out for gpref
set_params_add_free(pars, model, gd) ==
    set_params_Mbh(
        add(add(add(add(set_params_halo(add(pars, "scale",
                                            Parameter(Cat("rho0", gd.rho0), FALSE, NegInf, PosInf)),
                                        model, gd),
                        "rcut", Parameter(Cat("rc", gd.rc), TRUE, Lit("0.1"), PosInf)),
                    "bpref", Parameter(Lit("1"), TRUE, Lit("0"), Lit("100"))),
                "dpref", Parameter(Lit("1"), TRUE, Lit("0"), Lit("100"))),
            "gpref", Parameter(Lit("1"), TRUE, NegInf, PosInf)),
        gd)

\* the fit_pars.add calls in their order
set_params_add(pars, model, gd) ==
    set_params_Mbh(
        add(add(add(add(set_params_halo(add(pars, "scale",
                                            Parameter(Cat("rho0", gd.rho0), FALSE, NegInf, PosInf)),
                                        model, gd),
                        "rcut", Parameter(Cat("rc", gd.rc), TRUE, Lit("0.1"), PosInf)),
                    "bpref", Parameter(Lit("1"), TRUE, Lit("0"), Lit("100"))),
                "dpref", Parameter(Lit("1"), TRUE, Lit("0"), Lit("100"))),
            "gpref", Parameter(Lit("1"), FALSE, NegInf, PosInf)),
        gd)

\* from `galdict_local = galdict(galaxy)` on
set_params_galaxy(fs, model, pars, galaxy) ==
    IF galdict_known(galaxy)
    THEN Outcome(fs, "none", [kind |-> "params", val |-> set_params_add(pars, model, galdict(galaxy))],
                 0, 0)
    ELSE Outcome(fs, "KeyError", NoneVal, 0, 0)

set_params(fs, model, galaxy) ==
    IF model.type = "function"
    THEN set_params_galaxy(fs, lm_Model(model.name, "line 1050"), make_params(model.name), galaxy)
    ELSE IF model.type = "Model"
    THEN set_params_galaxy(fs, model, make_params(model.name), galaxy)
    ELSE Outcome(fs, "ValueError", NoneVal, 0, 0)

(***************************************************************************)
(* bestfit(model, galaxy)                                                  *)
(***************************************************************************)
\* the halo parameters as they would be added with `vary=False` left out for the
\* arraysize of the isothermal halo
bestfit_halo_free(pars, model, gd) ==
    IF \/ py_eq(model, Str("bh"))
       \/ py_eq(model, lm_Model("totalvelocity_miniBH", "line 1132"))
       \/ py_eq(model, Function("totalvelocity_miniBH"))
    THEN add(add(pars, "arraysize", Parameter(Lit("50"), TRUE, Lit("1"), Lit("100"))),
             "rho0", Parameter(Lit("1.5"), TRUE, Lit("0"), PosInf))
    ELSE IF \/ py_eq(model, Str("wimp"))
            \/ py_eq(model, lm_Model("totalvelocity_halo", "line 1137"))
            \/ py_eq(model, Function("totalvelocity_halo"))
    THEN add(add(pars, "arraysize", Parameter(Lit("0"), TRUE, NegInf, PosInf)),
             "rho0", Parameter(Cat("rho0", gd.rho0), TRUE, Lit("0"), PosInf))
    ELSE pars

\* the halo parameters bestfit adds itself, by the model as the caller passed it
bestfit_halo(pars, model, gd) ==
    IF \/ py_eq(model, Str("bh"))
       \/ py_eq(model, lm_Model("totalvelocity_miniBH", "line 1132"))
       \/ py_eq(model, Function("totalvelocity_miniBH"))
    THEN add(add(pars, "arraysize", Parameter(Lit("50"), TRUE, Lit("1"), Lit("100"))),
             "rho0", Parameter(Lit("1.5"), TRUE, Lit("0"), PosInf))
    ELSE IF \/ py_eq(model, Str("wimp"))
            \/ py_eq(model, lm_Model("totalvelocity_halo", "line 1137"))
            \/ py_eq(model, Function("totalvelocity_halo"))
    THEN add(add(pars, "arraysize", Parameter(Lit("0"), FALSE, NegInf, PosInf)),
             "rho0", Parameter(Cat("rho0", gd.rho0), TRUE, Lit("0"), PosInf))
    ELSE pars

\* 1/v, kept as the pair of its numerator and denominator
reciprocal(v) == [j \in 1..Len(v) |-> <<1, v[j]>>]
\* np.sqrt(m_v_errors**2 + n_v_bandwidth**2)
banded(gd) ==
    [j \in 1..Len(gd.m_v_errors) |->
        Isqrt(gd.m_v_errors[j] * gd.m_v_errors[j] + gd.n_v_bandwidth[j] * gd.n_v_bandwidth[j])]
\* the weights as they would be without the test on the model
bestfit_weights_untested(model, gd) ==
    IF gd.hasBand THEN reciprocal(banded(gd)) ELSE reciprocal(gd.m_v_errors)

\* the weights; a record without the key 'n_v_bandwidth' raises KeyError in the
\* try statement
bestfit_weights(model, gd) ==
    IF \/ py_eq(model, lm_Model("totalvelocity_halo", "line 1142"))
       \/ py_eq(model, Function("totalvelocity_halo"))
    THEN IF gd.hasBand THEN reciprocal(banded(gd)) ELSE reciprocal(gd.m_v_errors)
    ELSE reciprocal(gd.m_v_errors)

\* the number a parameter value stands for when the model is evaluated (1.5 is
\* rounded, the model's velocities being integers)
py_float(v) ==
    CASE v.src # "literal" -> v.num
      [] v.src = "literal" /\ v.text = "1" -> 1
      [] v.src = "literal" /\ v.text = "1.5" -> 2
      [] v.src = "literal" /\ v.text = "50" -> 50
      [] v.src = "literal" /\ v.text = "100" -> 100
      [] OTHER -> 0

\* fit.best_values: the minimizer changes the parameters that vary, within their
\* bounds (here: all of them one step up, or none), and no other
best_value(par, moved) ==
    IF /\ par.vary
       /\ moved
       /\ (par.max = PosInf \/ py_float(par.value) + 1 <= py_float(par.max))
    THEN [src |-> "fit", text |-> par.value.text, num |-> py_float(par.value) + 1]
    ELSE par.value
best_values(pars, moved) == [p \in DOMAIN pars |-> best_value(pars[p], moved)]

\* newmodel(r, scale, ..., Mbh): model(r, scale, ..., Mbh, galaxy); a model that
\* is a string or an lm.Model object cannot be called
newmodel(fs, model, r, v, galaxy, fails) ==
    IF model = Function("totalvelocity_halo")
    THEN totalvelocity_halo(fs, r, py_float(v["scale"]), py_float(v["arraysize"]),
                            py_float(v["rho0"]), py_float(v["rcut"]), py_float(v["bpref"]),
                            py_float(v["dpref"]), py_float(v["gpref"]), py_float(v["Mbh"]),
                            galaxy, fails)
    ELSE IF model = Function("totalvelocity_miniBH")
    THEN totalvelocity_miniBH(fs, r, py_float(v["scale"]), py_float(v["arraysize"]),
                              py_float(v["rho0"]), py_float(v["rcut"]), py_float(v["bpref"]),
                              py_float(v["dpref"]), py_float(v["gpref"]), py_float(v["Mbh"]),
                              galaxy, fails)
    ELSE Outcome(fs, "TypeError", NoneVal, 0, 0)

\* return bestfit, fit_dict: the curve o of the model at the best values, with
\* the parameters and weights the fit was given
bestfit_return(o, values, pars, weights) ==
    IF o.raised = "none"
    THEN Outcome(o.fs, "none",
                 [kind |-> "fit", val |-> <<o.ret.val, values>>,
                  fit |-> [params |-> pars, weights |-> weights]],
                 o.opens, o.closes)
    ELSE Outcome(o.fs, o.raised, NoneVal, o.opens, o.closes)

\* fit_mod.fit(m_velocities, fit_pars, r=m_radii, weights=weights)
bestfit_fit(fs, model, pars, weights, gd, galaxy, moved, fails) ==
    bestfit_return(newmodel(fs, model, gd.m_radii, best_values(pars, moved), galaxy, fails),
                   best_values(pars, moved), pars, weights)

\* moved, fails: what the minimizer and the bulge integration do in this call
bestfit(fs, model, galaxy, moved, fails) ==
    IF galdict_known(galaxy)
    THEN bestfit_fit(fs, model,
                     bestfit_halo(set_params(fs, Function("newmodel"), galaxy).ret.val, model,
                                  galdict(galaxy)),
                     bestfit_weights(model, galdict(galaxy)), galdict(galaxy), galaxy, moved,
                     fails)
    ELSE Outcome(fs, "KeyError", NoneVal, 0, 0)

(***************************************************************************)
(* Bounds and argument sets                                                *)
(***************************************************************************)
MaxLen == 2                    \* longest array passed to savedata directly
MaxX == 2                      \* x values are drawn from 1..MaxX
XVals == 1..MaxX
YTags == {7, 9}
\* x in any order, with or without repeated values
XArgs == UNION {[1..n -> XVals] : n \in 1..MaxLen}
\* y: n copies of a tag (its length need not be that of x)
YArgs == {[j \in 1..n |-> t] : n \in 1..MaxLen, t \in YTags}
Datasets == {<<"k1">>}
GroupArgs == {s_halo, s_h}

(***************************************************************************)
(* Init and the calls                                                      *)
(***************************************************************************)
\* the caller holds no call record
NoCall == [op |-> "none", args |-> <<>>, raised |-> "none", ret |-> NoneVal,
           opens |-> 0, closes |-> 0, pre |-> <<>>]

Init ==
    /\ h5py \in {0, 1}
    /\ errs \in [dup : DupErrors, ragged : RaggedErrors]
    /\ h5py = 0 => errs = [dup |-> "ValueError", ragged |-> "ValueError"]
    /\ files = [f \in FileNames |-> NoFile]
    /\ last = NoCall

\* one call of the library, made by a caller whose previous call has returned:
\* its effect on the files, and its record in last
Call(op, args, o) ==
    /\ last = NoCall
    /\ files' = o.fs
    /\ last' = [op |-> op, args |-> args, raised |-> o.raised, ret |-> o.ret,
                opens |-> o.opens, closes |-> o.closes, pre |-> files]
    /\ UNCHANGED <<h5py, errs>>

Savedata ==
    \E g \in GroupArgs, k \in Datasets, x \in XArgs, y \in YArgs :
        Call("savedata", [x |-> x, y |-> y, group |-> g, dataset |-> k, file |-> DefaultFile],
             savedata(files, x, y, g, k, DefaultFile))

Loaddata ==
    \E g \in GroupArgs, k \in Datasets :
        Call("loaddata", [group |-> g, dataset |-> k, file |-> DefaultFile],
             loaddata(files, g, k, DefaultFile))

Checkfile ==
    \E g \in GroupArgs \cup {s_all} :
        Call("checkfile", [group |-> g, file |-> DefaultFile],
             checkfile(files, g, DefaultFile))

\* the caller is done with the outcome of its call and may make the next one
Return ==
    /\ last # NoCall
    /\ last' = NoCall
    /\ UNCHANGED <<h5py, errs, files>>

Next == Savedata \/ Loaddata \/ Checkfile \/ Return

Spec == Init /\ [][Next]_vars

(***************************************************************************)
(* The alias lists: every group name of either list, in the spellings the  *)
(* lists give and a few they do not, written and read with one fixed pair  *)
(* of arrays.                                                              *)
(***************************************************************************)
AliasArgs ==
    savedata_disk \cup savedata_blackhole \cup savedata_halo \cup savedata_bulge
    \cup savedata_total \cup loaddata_disk \cup loaddata_blackhole \cup loaddata_halo
    \cup loaddata_bulge \cup loaddata_total
    \cup {<<"B", "l", "a", "c", "k", "h", "o", "l", "e">>, <<"D", "I", "S", "K">>, <<"t", "e", "s", "t">>}
CanonicalGroups == {s_disk, s_blackhole, s_halo, s_bulge, s_total}

AliasSavedata ==
    \E g \in AliasArgs, k \in Datasets :
        Call("savedata",
             [x |-> <<1>>, y |-> <<7>>, group |-> g, dataset |-> k, file |-> DefaultFile],
             savedata(files, <<1>>, <<7>>, g, k, DefaultFile))

AliasLoaddata ==
    \E g \in AliasArgs, k \in Datasets :
        Call("loaddata", [group |-> g, dataset |-> k, file |-> DefaultFile],
             loaddata(files, g, k, DefaultFile))

NextAlias == AliasSavedata \/ AliasLoaddata \/ Return

SpecAlias == Init /\ [][NextAlias]_vars

(***************************************************************************)
(* Properties of the cache store                                           *)
(***************************************************************************)
\* the entry (group, dataset) of a file, if it is stored
HasEntry(fs, file, group, dataset) ==
    /\ fs[file].exists
    /\ group \in DOMAIN fs[file].groups
    /\ dataset \in DOMAIN fs[file].groups[group]
EntryOf(fs, file, group, dataset) == fs[file].groups[group][dataset]
\* the two rows of a sequence of (x, y) pairs
Rows(s) == <<[j \in 1..Len(s) |-> s[j][1]], [j \in 1..Len(s) |-> s[j][2]]>>
\* (x, y) pairs sorted by x, and then with every repeated x collapsed to one pair
SortedPairs(x, y) == Rows(sorted(zip(x, y)))
MergedPairs(x, y) == dropRepeated(SortedPairs(x, y)[1], SortedPairs(x, y)[2], 1)
Distinct(x) == \A i, j \in 1..Len(x) : i # j => x[i] # x[j]
\* the last call was savedata, with h5py present
Saved == last.op = "savedata" /\ h5py = 1
SavedGroup == savedata_group(last.args.group)
SavedOnExisting ==
    Saved /\ HasEntry(last.pre, last.args.file, SavedGroup, last.args.dataset)
SavedOnMissing ==
    Saved /\ ~HasEntry(last.pre, last.args.file, SavedGroup, last.args.dataset)

\* C1: savedata on an entry that exists returns without raising, and the entry is
\* then the old pairs followed by the new ones, sorted by x, one pair per x value.
C1_MergeOnExisting ==
    (SavedOnExisting /\ Len(last.args.x) = Len(last.args.y)) =>
        /\ last.raised = "none"
        /\ HasEntry(files, last.args.file, SavedGroup, last.args.dataset)
        /\ EntryOf(files, last.args.file, SavedGroup, last.args.dataset) =
               MergedPairs(
                   EntryOf(last.pre, last.args.file, SavedGroup, last.args.dataset)[1]
                       \o last.args.x,
                   EntryOf(last.pre, last.args.file, SavedGroup, last.args.dataset)[2]
                       \o last.args.y)

\* C2: savedata(x, y, g, k) on an entry that does not exist, x pairwise distinct and
\* y as long as x, then loaddata(g, k): returns the pairs sorted by x ascending.
C2_RoundTripSorted ==
    (SavedOnMissing /\ Distinct(last.args.x) /\ Len(last.args.x) = Len(last.args.y)) =>
        /\ loaddata(files, last.args.group, last.args.dataset, last.args.file).raised = "none"
        /\ loaddata(files, last.args.group, last.args.dataset, last.args.file).ret =
               ArrVal(SortedPairs(last.args.x, last.args.y))

\* C3: after savedata(x, y, g, k) has returned, the same call again does not raise
\* and leaves stored what the first call left.
C3_SecondSaveIdempotent ==
    (Saved /\ last.raised = "none") =>
        /\ savedata(files, last.args.x, last.args.y, last.args.group, last.args.dataset,
                    last.args.file).raised = "none"
        /\ savedata(files, last.args.x, last.args.y, last.args.group, last.args.dataset,
                    last.args.file).fs = files

\* C4: every stored entry has x strictly increasing (so no repeated x) and x and y
\* of equal length.
C4_EntriesStrictlyIncreasing ==
    \A f \in FileNames : \A g \in DOMAIN files[f].groups : \A k \in DOMAIN files[f].groups[g] :
        /\ StrictlyIncreasing(files[f].groups[g][k][1])
        /\ Len(files[f].groups[g][k][1]) = Len(files[f].groups[g][k][2])

\* C5: a group name that savedata maps to a canonical group is mapped to the same
\* group by loaddata, so what savedata wrote under a name is found by loaddata
\* under that name, and under every other name savedata maps to that group.
C5_AliasesAgree ==
    (Saved /\ last.raised = "none" /\ SavedGroup \in CanonicalGroups) =>
        \A g \in AliasArgs :
            savedata_group(g) = SavedGroup =>
                /\ loaddata_group(g) = SavedGroup
                /\ loaddata(files, g, last.args.dataset, last.args.file).raised = "none"

\* C6: with h5py = 0, savedata, loaddata and checkfile return 1, raise nothing,
\* open no file and leave every file as it was.
C6_UnavailableReturnsOne ==
    (h5py = 0 /\ last.op \in {"savedata", "loaddata", "checkfile"}) =>
        /\ last.raised = "none"
        /\ last.ret.kind = "int" /\ last.ret.val = 1
        /\ last.opens = 0
        /\ files = last.pre
C6_Witness ==
    /\ h5py = 0
    /\ last.op = "savedata"
    /\ last.ret.kind = "int" /\ last.ret.val = 1

(***************************************************************************)
(* The components and the total velocities                                 *)
(***************************************************************************)
\* radii: 1, 2, ..., n from the number of points that is one too few for a spline
\* up to the catalog's length, and a short array that repeats a radius
RArgs == {Ramp(n) : n \in SplineOrder..CatLen} \cup {<<1, 1>>}
\* the halo is also asked for its velocity at the centre
HaloRArgs == RArgs \cup {<<0, 1>>}
MbhArgs == {100}
GalaxyArgs == {s_NGC5533, s_ngc5533, s_NGC_5533, s_NGC7814, s_NGC5005, s_M31}
\* the galaxies the bulge and the total velocities are asked for
BulgeGalaxyArgs == {s_NGC5533, s_NGC7814, s_NGC5005, s_M31}
\* the positions of the catalog's radii at which the bulge integration fails
FailArgs == {{}, {2}}
h_rc == Catalog(s_NGC5533).rc
h_rho00 == Catalog(s_NGC5533).rho0

Blackhole ==
    \E r \in RArgs, M \in MbhArgs, load \in BOOLEAN, save \in BOOLEAN :
        Call("blackhole", [r |-> r, M |-> M, load |-> load, save |-> save],
             blackhole(files, r, M, load, save))

Bulge ==
    \E r \in RArgs, g \in BulgeGalaxyArgs, load \in BOOLEAN, save \in BOOLEAN, fails \in FailArgs :
        Call("bulge",
             [r |-> r, bpref |-> 2, galaxy |-> g, n |-> n_c, re |-> re_c, load |-> load,
              save |-> save, fails |-> fails],
             bulge(files, r, 2, g, n_c, re_c, load, save, fails))

Hviso ==
    \E r \in HaloRArgs, load \in BOOLEAN, save \in BOOLEAN :
        Call("h_viso", [r |-> r, rc |-> h_rc, rho00 |-> h_rho00, load |-> load, save |-> save],
             h_viso(files, r, h_rc, h_rho00, load, save))

Halo ==
    \E r \in HaloRArgs :
        Call("halo", [r |-> r, rc |-> h_rc, rho00 |-> h_rho00], halo(files, r, h_rc, h_rho00))

Disk ==
    \E r \in RArgs, g \in GalaxyArgs :
        Call("disk", [r |-> r, dpref |-> 2, galaxy |-> g], disk(files, r, 2, g))

Gas ==
    \E r \in RArgs, g \in GalaxyArgs :
        Call("gas", [r |-> r, gpref |-> 2, galaxy |-> g], gas(files, r, 2, g))

HaloBH ==
    \E r \in RArgs :
        Call("halo_BH", [r |-> r, scale |-> 1, arraysize |-> 2, massMiniBH |-> 3, rcut |-> 1],
             halo_BH(files, r, 1, 2, 3, 1))

\* the arguments of a total velocity
TotalArgs(r, g, fails) ==
    [r |-> r, scale |-> 1, arraysize |-> 2, rho00 |-> 3, rcut |-> 1, bpref |-> 2, dpref |-> 1,
     gpref |-> 1, Mbh |-> 100, galaxy |-> g, fails |-> fails]

TotalvelocityMiniBH ==
    \E r \in RArgs, g \in BulgeGalaxyArgs, fails \in FailArgs :
        Call("totalvelocity_miniBH", TotalArgs(r, g, fails),
             totalvelocity_miniBH(files, r, 1, 2, 3, 1, 2, 1, 1, 100, g, fails))

TotalvelocityHalo ==
    \E r \in RArgs, g \in BulgeGalaxyArgs, fails \in FailArgs :
        Call("totalvelocity_halo", TotalArgs(r, g, fails),
             totalvelocity_halo(files, r, 1, 2, 3, 1, 2, 1, 1, 100, g, fails))

\* the three components that keep a cache
NextComp ==
    \/ Blackhole
    \/ Bulge
    \/ Hviso
    \/ Return

SpecComp == Init /\ [][NextComp]_vars

\* the total velocities, with the components that are not cached and the bulge,
\* the one component a total velocity calls with its cache
NextTotal ==
    \/ Bulge
    \/ Halo
    \/ Disk
    \/ Gas
    \/ HaloBH
    \/ TotalvelocityMiniBH
    \/ TotalvelocityHalo
    \/ Return

SpecTotal == Init /\ [][NextTotal]_vars

(***************************************************************************)
(* The fitting parameters                                                  *)
(***************************************************************************)
ModelArgs ==
    {Function(f) : f \in {"totalvelocity_halo", "totalvelocity_miniBH", "newmodel", "lambda r"}}
    \cup {lm_Model(f, "caller") :
            f \in {"totalvelocity_halo", "totalvelocity_miniBH", "newmodel", "lambda r"}}
    \cup {Str(s) : s \in {"bh", "wimp", "BH", "halo"}}
    \cup {NoneModel}

SetParams ==
    \E m \in ModelArgs, g \in GalaxyArgs :
        Call("set_params", [model |-> m, galaxy |-> g], set_params(files, m, g))

\* the models bestfit is asked to fit
FitModelArgs ==
    {Function(f) : f \in {"totalvelocity_halo", "totalvelocity_miniBH", "lambda r"}}
    \cup {lm_Model(f, "caller") : f \in {"totalvelocity_halo", "totalvelocity_miniBH"}}
    \cup {Str(s) : s \in {"bh", "wimp"}}

Bestfit ==
    \E m \in FitModelArgs, g \in GalaxyArgs, moved \in BOOLEAN, fails \in FailArgs :
        Call("bestfit", [model |-> m, galaxy |-> g, moved |-> moved, fails |-> fails],
             bestfit(files, m, g, moved, fails))

NextFit == SetParams \/ Bestfit \/ Return

SpecFit == Init /\ [][NextFit]_vars

(***************************************************************************)
(* Properties of the components                                            *)
(***************************************************************************)
\* the last call was one of the three cached components, asked to load (bulge:
\* for the one galaxy whose bulge is cached)
CachedLoad ==
    /\ last.op \in {"blackhole", "bulge", "h_viso"}
    /\ last.args.load
    /\ last.op = "bulge" => upper(last.args.galaxy) = s_NGC5533
\* the cache entry of that call
CacheFile ==
    CASE last.op = "blackhole" -> "blackhole.hdf5"
      [] last.op = "bulge" -> "bulge.hdf5"
      [] OTHER -> "halo.hdf5"
CacheGroup ==
    CASE last.op = "blackhole" -> s_blackhole
      [] last.op = "bulge" -> s_bulge
      [] OTHER -> s_halo
CacheKey ==
    CASE last.op = "blackhole" -> blackhole_key(last.args.M)
      [] last.op = "bulge" -> bulge_key(Catalog(s_NGC5533).bulge.Lb, last.args.n, last.args.re)
      [] OTHER -> h_viso_key(last.args.rc, last.args.rho00)
\* the velocities that call computes when it uses no cache
Fresh ==
    CASE last.op = "blackhole" -> blackhole_a(last.args.r, last.args.M)
      [] last.op = "bulge" ->
            spline_eval(Catalog(s_NGC5533).m_radii,
                        scaled(last.args.bpref,
                               bulge_y(Catalog(s_NGC5533).m_radii, Catalog(s_NGC5533).bulge.Lb,
                                       last.args.n, last.args.re, last.args.fails)),
                        last.args.r)
      [] OTHER -> h_viso_a(last.args.r, last.args.rc, last.args.rho00)

\* C7: without h5py, blackhole, bulge (NGC5533) and h_viso called with load=True
\* return the freshly computed velocities, change no file and do not raise.
C7_UnavailableStoreIsMiss ==
    (h5py = 0 /\ CachedLoad) =>
        /\ last.raised = "none"
        /\ last.ret = ArrVal(Fresh)
        /\ files = last.pre

\* C8: with h5py, when the entry asked for is not stored (no file, no group or no
\* dataset), blackhole, bulge and h_viso called with load=True do not raise: they
\* compute, store the entry and return the computed velocities.
C8_MissingEntryIsMiss ==
    (h5py = 1 /\ CachedLoad /\ ~HasEntry(last.pre, CacheFile, CacheGroup, CacheKey)) =>
        /\ last.raised = "none"
        /\ last.ret = ArrVal(Fresh)
        /\ HasEntry(files, CacheFile, CacheGroup, CacheKey)

\* the last call was a total velocity
Totalled == last.op \in {"totalvelocity_miniBH", "totalvelocity_halo"}
\* the outcomes of the five components of that call, run on their own
ComponentsOf(a, fs) ==
    <<blackhole(fs, a.r, a.Mbh, FALSE, FALSE),
      bulge(fs, a.r, a.bpref, a.galaxy, n_c, re_c, TRUE, FALSE, a.fails),
      disk(fs, a.r, a.dpref, a.galaxy),
      IF last.op = "totalvelocity_halo"
      THEN halo(fs, a.r, a.rcut, a.rho00)
      ELSE halo_BH(fs, a.r, a.scale, a.arraysize, a.rho00, a.rcut),
      gas(fs, a.r, a.gpref, a.galaxy)>>
\* what component c adds under the root at position j: its square, or nothing
\* when it raised
Contribution(outs, c, j) ==
    IF outs[c].raised = "none" THEN outs[c].ret.val[j] * outs[c].ret.val[j] ELSE 0
QuadratureOf(outs, r) ==
    [j \in 1..Len(r) |->
        Isqrt(Contribution(outs, 1, j) + Contribution(outs, 2, j) + Contribution(outs, 3, j)
              + Contribution(outs, 4, j) + Contribution(outs, 5, j))]

\* C9: a total velocity never raises, and is at each radius the square root of the
\* sum of the squares of the components that did not raise, a component that
\* raised adding nothing.
C9_QuadratureOfSurvivors ==
    Totalled =>
        /\ last.raised = "none"
        /\ last.ret = ArrVal(QuadratureOf(ComponentsOf(last.args, last.pre), last.args.r))

\* a total velocity has been computed of which the bulge raised and the disk did
\* not, and which is not zero everywhere
C9_Witness ==
    /\ Totalled
    /\ ComponentsOf(last.args, last.pre)[2].raised # "none"
    /\ ComponentsOf(last.args, last.pre)[3].raised = "none"
    /\ \E j \in 1..Len(last.args.r) : last.ret.val[j] > 0

\* the models set_params is documented to accept
Recognized(model) ==
    \/ model.type \in {"function", "Model"}
    \/ model.type = "str" /\ model.name \in {"bh", "wimp"}

\* C10: for a galaxy of the catalog, set_params raises ValueError exactly when the
\* model is neither a function, an lm.Model nor one of the tags 'bh' and 'wimp',
\* and returns a parameter set for every model that is one of these.
C10_ValueErrorIffUnrecognized ==
    (last.op = "set_params" /\ galdict_known(last.args.galaxy)) =>
        /\ last.raised = "ValueError" <=> ~Recognized(last.args.model)
        /\ Recognized(last.args.model) => (last.raised = "none" /\ last.ret.kind = "params")

(***************************************************************************)
(* Two savedata calls made at once on the same entry, as by two workers of *)
(* one process.  savedata takes no lock, so the calls advance statement by *)
(* statement in any order; what one has written through its open handle is *)
(* seen by the other.  last then holds one pc, exception and return value  *)
(* per call.  The except RuntimeError clause is taken as one step.         *)
(***************************************************************************)
Threads == {1, 2}
ThreadXArgs == [1..1 -> XVals]
TwoSavedata == "savedata, savedata"
At(t, pc) == last.op = TwoSavedata /\ last.pc[t] = pc
ThreadGroup == savedata_group(last.args.group)
ThreadGroups == files[last.args.file].groups

\* call t goes on to pc
Step(t, pc, fs, raised, ret, grp, opens, closes) ==
    /\ files' = fs
    /\ last' = [last EXCEPT !.pc[t] = pc, !.raised[t] = raised, !.ret[t] = ret,
                            !.grp[t] = grp, !.opens = @ + opens, !.closes = @ + closes]
    /\ UNCHANGED <<h5py, errs>>

\* both calls are made
Fork ==
    \E x1 \in ThreadXArgs, x2 \in ThreadXArgs :
        /\ last = NoCall
        /\ last' = [op |-> TwoSavedata,
                    args |-> [x |-> <<x1, x2>>, y |-> <<(<<7>>), (<<9>>)>>, group |-> s_h,
                              dataset |-> <<"k1">>, file |-> DefaultFile],
                    raised |-> <<"none", "none">>, ret |-> <<NoneVal, NoneVal>>,
                    opens |-> 0, closes |-> 0, pre |-> files,
                    pc |-> <<"start", "start">>, grp |-> <<FALSE, FALSE>>]
        /\ UNCHANGED <<h5py, errs, files>>

\* if h5py == 1: saved = h5.File(path+'/'+file,'a'); elif h5py == 0: return 1
Open ==
    \E t \in Threads :
        /\ At(t, "start")
        /\ IF h5py = 1
           THEN Step(t, "create_group", [files EXCEPT ![last.args.file].exists = TRUE],
                     "none", NoneVal, FALSE, 1, 0)
           ELSE Step(t, "done", files, "none", IntVal(1), FALSE, 0, 0)

\* grp = saved.create_group(group)
CreateGroup ==
    \E t \in Threads :
        /\ At(t, "create_group")
        /\ IF ThreadGroup \in DOMAIN ThreadGroups
           THEN Step(t, "except ValueError", files, "none", NoneVal, FALSE, 0, 0)
           ELSE Step(t, "create_dataset",
                     [files EXCEPT ![last.args.file].groups =
                                       MapPut(ThreadGroups, ThreadGroup, NoEntries)],
                     "none", NoneVal, TRUE, 0, 0)

\* what follows a create_dataset of the try body that left cd
AfterDataset(t, cd) ==
    Step(t,
         IF cd.raised \in {"ValueError", "RuntimeError"} THEN "except " \o cd.raised
         ELSE "finally",
         [files EXCEPT ![last.args.file].groups[ThreadGroup] = cd.dsets],
         IF cd.raised \in {"ValueError", "RuntimeError"} THEN "none" ELSE cd.raised,
         NoneVal, TRUE, 0, 0)

\* grp.create_dataset(dataset,data=[xvalues,yvalues]) of the try body
CreateDataset ==
    \E t \in Threads :
        /\ At(t, "create_dataset")
        /\ AfterDataset(t, create_dataset(ThreadGroups[ThreadGroup], last.args.dataset,
                                          last.args.x[t], last.args.y[t]))

\* what follows the except ValueError clause that left block b
AfterValueError(t, b) ==
    Step(t, "finally", [files EXCEPT ![last.args.file].groups = b.groups], b.raised, NoneVal,
         b.grpBound, 0, 0)

\* except ValueError: grp = saved[group]; grp.create_dataset(...)
ExceptValueError ==
    \E t \in Threads :
        /\ At(t, "except ValueError")
        /\ AfterValueError(t, savedata_exceptValueError(ThreadGroups, ThreadGroup,
                                                        last.args.dataset, last.args.x[t],
                                                        last.args.y[t]))

\* what follows the except RuntimeError clause with outcome m
AfterRuntimeError(t, m) ==
    Step(t, "finally", m.fs, m.raised, m.ret, last.grp[t], m.opens, m.closes)

\* except RuntimeError: load, append, sort, delete, save again, return y
ExceptRuntimeError ==
    \E t \in Threads :
        /\ At(t, "except RuntimeError")
        /\ AfterRuntimeError(t, savedata_exceptRuntimeError(files, last.grp[t], ThreadGroup,
                                                            last.args.dataset, last.args.file,
                                                            last.args.x[t], last.args.y[t]))

\* finally: saved.close()
Finally ==
    \E t \in Threads :
        /\ At(t, "finally")
        /\ Step(t, "done", files, last.raised[t], last.ret[t], last.grp[t], 0, 1)

\* both calls have returned or raised
Join ==
    /\ last.op = TwoSavedata
    /\ \A t \in Threads : last.pc[t] = "done"
    /\ last' = NoCall
    /\ UNCHANGED <<h5py, errs, files>>

NextThreads ==
    \/ Fork
    \/ Open
    \/ CreateGroup
    \/ CreateDataset
    \/ ExceptValueError
    \/ ExceptRuntimeError
    \/ Finally
    \/ Join

SpecThreads == Init /\ [][NextThreads]_vars

(***************************************************************************)
(* Properties of the fit                                                   *)
(***************************************************************************)
\* the last call was a bestfit for a galaxy of the catalog
Fitted == last.op = "bestfit" /\ galdict_known(last.args.galaxy)
\* the total velocity a model stands for, as a function
VariantOf(model) ==
    CASE model = Str("bh") -> Function("totalvelocity_miniBH")
      [] model = Str("wimp") -> Function("totalvelocity_halo")
      [] OTHER -> model

\* C11: bestfit takes as its model a total velocity function or one of the tags
\* 'bh' and 'wimp'; for a galaxy of the catalog it does not raise and returns the
\* best-fit curve and parameter values, a tag giving what its function gives.
C11_TagsAreFitted ==
    (Fitted /\ VariantOf(last.args.model) \in
                  {Function("totalvelocity_miniBH"), Function("totalvelocity_halo")}) =>
        /\ last.raised = "none"
        /\ last.ret = bestfit(last.pre, VariantOf(last.args.model), last.args.galaxy,
                              last.args.moved, last.args.fails).ret

\* the last call was a set_params that returned its parameter set
ParamsSet == last.op = "set_params" /\ last.raised = "none"
\* parameter par is fixed at value
FixedAt(par, value) == ~par.vary /\ par.value = value
\* parameter par is free, starts at value and is kept within min..max
FreeFrom(par, value, min, max) ==
    par.vary /\ par.value = value /\ par.min = min /\ par.max = max

\* C12: the parameter set set_params returns has scale fixed at the catalog's
\* value, rcut free from 0.1 up and starting at the catalog's rc, bpref and dpref
\* free in [0, 100] and starting at 1, and gpref fixed at 1.
C12_CommonParameters ==
    ParamsSet =>
        /\ FixedAt(last.ret.val["scale"], Cat("rho0", galdict(last.args.galaxy).rho0))
        /\ FreeFrom(last.ret.val["rcut"], Cat("rc", galdict(last.args.galaxy).rc),
                    Lit("0.1"), PosInf)
        /\ FreeFrom(last.ret.val["bpref"], Lit("1"), Lit("0"), Lit("100"))
        /\ FreeFrom(last.ret.val["dpref"], Lit("1"), Lit("0"), Lit("100"))
        /\ FixedAt(last.ret.val["gpref"], Lit("1"))

\* set_params has returned the parameters of a total velocity function for a
\* galaxy named with a space
C12_Witness ==
    /\ ParamsSet
    /\ last.args.model = Function("totalvelocity_miniBH")
    /\ last.args.galaxy = s_NGC_5533
    /\ {"scale", "rcut", "bpref", "dpref", "gpref"} \subseteq DOMAIN last.ret.val

\* C13: in the parameter set set_params returns, Mbh is free from 1e8 up and starts
\* at the catalog's black hole mass when the catalog has one that is not 0;
\* otherwise (mass 0, or no entry) Mbh is fixed at 0.
C13_BlackHoleMass ==
    ParamsSet =>
        IF galdict(last.args.galaxy).hasBlackhole /\ galdict(last.args.galaxy).Mbh # 0
        THEN FreeFrom(last.ret.val["Mbh"], Cat("Mbh", galdict(last.args.galaxy).Mbh),
                      Lit("1e8"), PosInf)
        ELSE FixedAt(last.ret.val["Mbh"], Lit("0"))

\* set_params has returned for a galaxy whose catalog entry has a black hole of
\* mass 0
C13_Witness ==
    /\ ParamsSet
    /\ galdict(last.args.galaxy).hasBlackhole
    /\ galdict(last.args.galaxy).Mbh = 0
    /\ ~last.ret.val["Mbh"].vary

\* parameter name of the returned set is free, starts at value and is kept within
\* min..max
HasFree(name, value, min, max) ==
    name \in DOMAIN last.ret.val /\ FreeFrom(last.ret.val[name], value, min, max)

\* C14: set_params picks the halo parameters by the model: for totalvelocity_halo,
\* arraysize fixed at 0 and rho0 free from 0 up, starting at the catalog's central
\* density; for totalvelocity_miniBH, arraysize free in [1, 100] starting at 50 and
\* rho0 free from 0 up, starting at 1.5.
C14_HaloParametersByVariant ==
    ParamsSet =>
        /\ last.args.model.name = "totalvelocity_halo" =>
              /\ FixedAt(last.ret.val["arraysize"], Lit("0"))
              /\ HasFree("rho0", Cat("rho0", galdict(last.args.galaxy).rho0), Lit("0"), PosInf)
        /\ last.args.model.name = "totalvelocity_miniBH" =>
              /\ HasFree("arraysize", Lit("50"), Lit("1"), Lit("100"))
              /\ HasFree("rho0", Lit("1.5"), Lit("0"), PosInf)

\* the last call was a bestfit that returned
FitReturned == Fitted /\ last.raised = "none"
\* the parameters that are to stay fixed, for the model and galaxy of that call
FixedNames ==
    {"scale", "gpref"}
    \cup (IF last.args.model = Function("totalvelocity_halo") THEN {"arraysize"} ELSE {})
    \cup (IF galdict(last.args.galaxy).hasBlackhole /\ galdict(last.args.galaxy).Mbh # 0
          THEN {} ELSE {"Mbh"})
\* the value each of them is given before the fit
Seed(name) ==
    CASE name = "scale" -> Cat("rho0", galdict(last.args.galaxy).rho0)
      [] name = "gpref" -> Lit("1")
      [] OTHER -> Lit("0")

\* C15: in the dictionary bestfit returns, every parameter that the set passed to
\* the fit marks vary=False has the value it was given before the fit; these are
\* at least scale, gpref, arraysize for the isothermal halo, and Mbh when the
\* catalog's black hole mass is 0 or absent.
C15_FixedStayFixed ==
    FitReturned =>
        /\ \A p \in DOMAIN last.ret.fit.params :
              ~last.ret.fit.params[p].vary => last.ret.val[2][p] = last.ret.fit.params[p].value
        /\ \A p \in FixedNames :
              /\ p \in DOMAIN last.ret.fit.params
              /\ ~last.ret.fit.params[p].vary
              /\ last.ret.val[2][p] = Seed(p)

\* a fit of the isothermal halo for a galaxy without black hole mass has returned,
\* and has moved a free parameter away from its starting value
C15_Witness ==
    /\ FitReturned
    /\ FixedNames = {"scale", "gpref", "arraysize", "Mbh"}
    /\ last.ret.val[2]["bpref"] # last.ret.fit.params["bpref"].value

C17_HaloZeroAtCentre ==
    (last.op = "halo" /\ last.args.rc > 0 /\ last.args.rho00 > 0) =>
        /\ last.raised = "none"
        /\ last.ret.kind = "array"
        /\ Len(last.ret.val) = Len(last.args.r)
        /\ \A j \in 1..Len(last.args.r) :
              /\ last.args.r[j] = 0 => last.ret.val[j] = 0
              /\ last.ret.val[j] # NaN

\* halo has been asked for the centre and for a radius away from it, where the
\* velocity is not 0
C17_Witness ==
    /\ last.op = "halo"
    /\ last.raised = "none"
    /\ \E j \in 1..Len(last.args.r) : last.args.r[j] = 0 /\ last.ret.val[j] = 0
    /\ \E j \in 1..Len(last.args.r) : last.args.r[j] > 0 /\ last.ret.val[j] > 0

(***************************************************************************)
(* Properties of two savedata calls made at once                           *)
(***************************************************************************)
\* call t is between its open and its close
InTransaction(t) == last.pc[t] \notin {"start", "done"}
\* both calls are over
BothDone == last.op = TwoSavedata /\ \A t \in Threads : last.pc[t] = "done"
\* the x values of the entry the two calls wrote to
StoredX ==
    {EntryOf(files, last.args.file, ThreadGroup, last.args.dataset)[1][i] :
        i \in 1..Len(EntryOf(files, last.args.file, ThreadGroup, last.args.dataset)[1])}

\* C18: two savedata calls made at once on the same (group, dataset) are never
\* both between open and close, and when both are over the entry holds every x
\* value either of them was given.
C18_TransactionsSerialized ==
    last.op = TwoSavedata =>
        /\ ~(InTransaction(1) /\ InTransaction(2))
        /\ (BothDone /\ h5py = 1) =>
              /\ HasEntry(files, last.args.file, ThreadGroup, last.args.dataset)
              /\ \A t \in Threads : last.args.x[t][1] \in StoredX

(***************************************************************************)
(* Properties of the traced components                                     *)
(***************************************************************************)
\* the last call was bulge (computing afresh), disk or gas, for a name galdict
\* resolves to one of the two galaxies the components have a branch for
TracedKnown ==
    /\ last.op \in {"bulge", "disk", "gas"}
    /\ galdict_name(last.args.galaxy) \in {s_NGC5533, s_NGC7814}
    /\ last.op = "bulge" => (~last.args.load /\ ~last.args.save)
\* the same call made under the name of the record as the catalog spells it
UnderCatalogName ==
    CASE last.op = "bulge" ->
            bulge(last.pre, last.args.r, last.args.bpref, galdict_name(last.args.galaxy),
                  last.args.n, last.args.re, FALSE, FALSE, last.args.fails)
      [] last.op = "disk" ->
            disk(last.pre, last.args.r, last.args.dpref, galdict_name(last.args.galaxy))
      [] OTHER -> gas(last.pre, last.args.r, last.args.gpref, galdict_name(last.args.galaxy))

\* C19: for every name galdict resolves, in any case and with or without spaces,
\* bulge, disk and gas do not raise and return a velocity array, the one they
\* return for any other name of the same record.
C19_SameNamesAsGaldict ==
    TracedKnown =>
        /\ last.raised = "none"
        /\ last.ret.kind = "array"
        /\ last.ret = UnderCatalogName.ret

(***************************************************************************)
(* Properties of the black hole                                            *)
(***************************************************************************)
\* sqrt(G*M/r) at each radius of the last call
PointMass == [j \in 1..Len(last.args.r) |-> Isqrt((G * last.args.M) \div last.args.r[j])]
\* the last call returned sqrt(G*M/r), opened no file and left every file as it was
PureCall ==
    /\ last.raised = "none"
    /\ last.ret = ArrVal(PointMass)
    /\ last.opens = 0
    /\ files = last.pre

\* C20 as stated: every blackhole call, whatever its flags load and save and
\* whatever the cache holds, returns sqrt(G*M/r) and neither reads nor modifies
\* the cache store.
C20_PureAndStateless == last.op = "blackhole" => PureCall

\* C20 as amended: a blackhole call with load=False and save=False returns
\* sqrt(G*M/r) whatever the cache holds, and neither reads nor modifies the cache
\* store.
C20_PureByDefault ==
    (last.op = "blackhole" /\ ~last.args.load /\ ~last.args.save) => PureCall

\* blackhole has been called with load=False and save=False while the cache held
\* an entry for its mass
C20_Witness ==
    /\ last.op = "blackhole"
    /\ ~last.args.load
    /\ ~last.args.save
    /\ HasEntry(last.pre, "blackhole.hdf5", s_blackhole, blackhole_key(last.args.M))
    /\ last.ret = ArrVal(PointMass)

(***************************************************************************)
(* Properties of the cached components, continued                          *)
(***************************************************************************)
\* the last call was h_viso with load=True and h5py present
HvisoLoad == last.op = "h_viso" /\ last.args.load /\ h5py = 1
\* its cache entry was stored before the call
HvisoHit ==
    HasEntry(last.pre, "halo.hdf5", s_halo, h_viso_key(last.args.rc, last.args.rho00))
\* that entry, before the call
HvisoCached ==
    EntryOf(last.pre, "halo.hdf5", s_halo, h_viso_key(last.args.rc, last.args.rho00))

\* C21: h_viso with load=True returns, when its entry is stored, the spline of the
\* stored trace at r and leaves the store as it is, and otherwise stores r with the
\* computed velocities under its key and returns them; neither raises.
C21_ReadThroughWriteThrough ==
    HvisoLoad =>
        /\ last.raised = "none"
        /\ IF HvisoHit
           THEN /\ files = last.pre
                /\ last.ret = ArrVal(spline_eval(HvisoCached[1], HvisoCached[2], last.args.r))
           ELSE /\ HasEntry(files, "halo.hdf5", s_halo,
                            h_viso_key(last.args.rc, last.args.rho00))
                /\ EntryOf(files, "halo.hdf5", s_halo,
                           h_viso_key(last.args.rc, last.args.rho00))
                      = <<last.args.r, h_viso_a(last.args.r, last.args.rc, last.args.rho00)>>
                /\ last.ret = ArrVal(h_viso_a(last.args.r, last.args.rc, last.args.rho00))

\* the last call was bulge for NGC5533 with load=True and h5py present, and its
\* cache entry was stored before the call
BulgeHit ==
    /\ last.op = "bulge"
    /\ upper(last.args.galaxy) = s_NGC5533
    /\ last.args.load
    /\ h5py = 1
    /\ HasEntry(last.pre, "bulge.hdf5", s_bulge,
                bulge_key(Catalog(s_NGC5533).bulge.Lb, last.args.n, last.args.re))
\* the velocities of that entry
BulgeCached ==
    EntryOf(last.pre, "bulge.hdf5", s_bulge,
            bulge_key(Catalog(s_NGC5533).bulge.Lb, last.args.n, last.args.re))[2]

BulgeTraced == last.op = "bulge" /\ upper(last.args.galaxy) = s_NGC7814
\* the last call was one that uses no cache
Uncached == last.op \in {"disk", "gas", "halo_BH", "halo"} \/ BulgeTraced

\* C23: disk, gas, halo_BH, halo and bulge for NGC7814 open no cache file and leave
\* every cache file as it is, whatever their arguments; bulge for NGC7814 also
\* integrates nothing: its outcome is the same whether or not an integration
\* would fail.
C23_UncachedPathsLeaveStore ==
    Uncached =>
        /\ files = last.pre
        /\ last.opens = 0
        /\ BulgeTraced =>
              \A f \in FailArgs :
                  bulge(last.pre, last.args.r, last.args.bpref, last.args.galaxy, last.args.n,
                        last.args.re, last.args.load, last.args.save, f).ret = last.ret

\* bulge has returned for NGC7814 with load=True and save=True, in a call in which
\* an integration would have failed, while the bulge cache file existed
C23_Witness ==
    /\ BulgeTraced
    /\ last.raised = "none"
    /\ last.args.load
    /\ last.args.save
    /\ last.args.fails # {}
    /\ last.pre["bulge.hdf5"].exists

(***************************************************************************)
(* Properties of the cache store, continued                                *)
(***************************************************************************)
\* C24: when savedata, loaddata or checkfile returns or raises, every file handle
\* the call opened has been closed.
C24_HandlesClosed ==
    last.op \in {"savedata", "loaddata", "checkfile"} => last.closes = last.opens

(***************************************************************************)
(* Properties of the bulge integration                                     *)
(***************************************************************************)
\* the last call was bulge for NGC5533
BulgeIntegrated == last.op = "bulge" /\ upper(last.args.galaxy) = s_NGC5533
\* the velocity at the j-th catalog radius when its integration succeeds
BulgeAt(j) ==
    Isqrt(bulge_vsquare(Catalog(s_NGC5533).m_radii[j], Catalog(s_NGC5533).bulge.Lb,
                        last.args.n, last.args.re))

\* C25: a failing integration at one catalog radius makes bulge raise in no call
\* in which it would not raise anyway, and in a call that computes (load=False,
\* save=False) bulge returns the spline of the prefactor times the trace that is
\* 0 at the failing radii and the computed velocity, in the catalog's order, at
\* every other radius.
C25_FailureIsolated ==
    BulgeIntegrated =>
        /\ last.raised = bulge(last.pre, last.args.r, last.args.bpref, last.args.galaxy,
                               last.args.n, last.args.re, last.args.load, last.args.save,
                               {}).raised
        /\ (~last.args.load /\ ~last.args.save) =>
              /\ last.raised = "none"
              /\ last.ret =
                    ArrVal(spline_eval(Catalog(s_NGC5533).m_radii,
                                       [j \in 1..CatLen |->
                                           IF j \in last.args.fails THEN 0
                                           ELSE last.args.bpref * BulgeAt(j)],
                                       last.args.r))

\* bulge has computed the trace at the catalog's own radii with the integration
\* failing at the second: the velocity is 0 there and not 0 at its neighbours
C25_Witness ==
    /\ BulgeIntegrated
    /\ ~last.args.load
    /\ ~last.args.save
    /\ last.args.fails = {2}
    /\ last.args.r = Catalog(s_NGC5533).m_radii
    /\ last.ret.val[2] = 0
    /\ last.ret.val[1] > 0
    /\ last.ret.val[3] > 0

(***************************************************************************)
(* Properties of the cache entries the components write                    *)
(***************************************************************************)
\* the last call was to a component that keeps a cache
Cacheable ==
    /\ last.op \in {"blackhole", "bulge", "h_viso"}
    /\ last.op = "bulge" => upper(last.args.galaxy) = s_NGC5533
\* the entry of that call's key existed before the call
KeyExisted == HasEntry(last.pre, CacheFile, CacheGroup, CacheKey)
\* the x values of that entry before and after the call, and the radii asked for
XBefore ==
    {EntryOf(last.pre, CacheFile, CacheGroup, CacheKey)[1][i] :
        i \in 1..Len(EntryOf(last.pre, CacheFile, CacheGroup, CacheKey)[1])}
XAfter ==
    {EntryOf(files, CacheFile, CacheGroup, CacheKey)[1][i] :
        i \in 1..Len(EntryOf(files, CacheFile, CacheGroup, CacheKey)[1])}
Requested == {last.args.r[i] : i \in 1..Len(last.args.r)}

\* C26: after a cached component is called to save (load=False, save=True) for
\* a key that has an entry, with radii that are not all in the entry's x, the
\* entry's x holds the old x and the new radii, in ascending order.
C26_EntryExtended ==
    (Cacheable /\ ~last.args.load /\ last.args.save /\ KeyExisted
        /\ ~(Requested \subseteq XBefore)) =>
        /\ HasEntry(files, CacheFile, CacheGroup, CacheKey)
        /\ XBefore \cup Requested \subseteq XAfter
        /\ EntryOf(files, CacheFile, CacheGroup, CacheKey)[1]
              = sorted(EntryOf(files, CacheFile, CacheGroup, CacheKey)[1])

\* C27: with h5py present, every call of a cached component with save=True
\* returns without raising and leaves an entry under the component's key that
\* holds the x stored there before and, for blackhole and h_viso, the radii of
\* the call, whatever load is and whether or not the entry existed.
C27_SaveAlwaysPersists ==
    (Cacheable /\ last.args.save /\ h5py = 1) =>
        /\ last.raised = "none"
        /\ HasEntry(files, CacheFile, CacheGroup, CacheKey)
        /\ last.op # "bulge" => Requested \subseteq XAfter
        /\ KeyExisted => XBefore \subseteq XAfter

\* C28: with h5py present, h_viso with load=True on a key that has an entry
\* returns without raising, whatever the entry holds.
C28_LoadErrorRecovered == (HvisoLoad /\ HvisoHit) => last.raised = "none"

\* C29: with h5py present, after bulge for NGC5533 is called with save=True for
\* a key that has no entry, the key has an entry whose x is the catalog's radii
\* and whose y has the same length, and the spline a hit makes of it (through
\* the catalog's radii, times the prefactor) is the result of this call.
C29_VelocityPairedWithRadius ==
    (BulgeIntegrated /\ h5py = 1 /\ last.args.save /\ ~last.args.load /\ ~KeyExisted) =>
        /\ last.raised = "none"
        /\ HasEntry(files, CacheFile, CacheGroup, CacheKey)
        /\ EntryOf(files, CacheFile, CacheGroup, CacheKey)[1] = Catalog(s_NGC5533).m_radii
        /\ Len(EntryOf(files, CacheFile, CacheGroup, CacheKey)[2]) = CatLen
        /\ last.ret =
              ArrVal(spline_eval(Catalog(s_NGC5533).m_radii,
                                 scaled(last.args.bpref,
                                        EntryOf(files, CacheFile, CacheGroup, CacheKey)[2]),
                                 last.args.r))

(***************************************************************************)
(* What savedata keeps                                                     *)
(***************************************************************************)
\* the x values of entry (g, k) of the file savedata was called on, in fs
EntryX(fs, g, k) ==
    {EntryOf(fs, last.args.file, g, k)[1][i] :
        i \in 1..Len(EntryOf(fs, last.args.file, g, k)[1])}

\* C30: after a savedata call, whether it returned or raised, every entry that
\* was stored before the call is stored and holds every x value it held before.
C30_NoStoredDataLost ==
    last.op = "savedata" =>
        \A g \in DOMAIN last.pre[last.args.file].groups :
            \A k \in DOMAIN last.pre[last.args.file].groups[g] :
                /\ HasEntry(files, last.args.file, g, k)
                /\ EntryX(last.pre, g, k) \subseteq EntryX(files, g, k)

\* savedata has raised on an entry that exists, called with an x value the
\* entry does not hold, and the entry is as it was
C30_Witness ==
    /\ SavedOnExisting
    /\ last.raised # "none"
    /\ \E i \in 1..Len(last.args.x) :
          last.args.x[i] \notin EntryX(last.pre, SavedGroup, last.args.dataset)
    /\ EntryOf(files, last.args.file, SavedGroup, last.args.dataset)
          = EntryOf(last.pre, last.args.file, SavedGroup, last.args.dataset)

====
